---- MODULE Spec2Model ----
(***************************************************************************)
(* Model of the dialect-adaptive Transmission RPC client                   *)
(* (src/src/rpcClient.ts, class TransmissionRpcClient, lines 66-211).      *)
(*                                                                         *)
(* One client instance is shared by the calls in Calls.  JavaScript runs   *)
(* every stretch of code between two awaits without interruption, so each  *)
(* action below is one such stretch: from the entry of call() to the       *)
(* first fetch(), from the settlement of fetch() to the next fetch() or to *)
(* res.json(), and so on.  The daemon and the network are the environment: *)
(* they choose the response to every request.                              *)
(***************************************************************************)
EXTENDS Naturals, Sequences, FiniteSets, TLC

(***************************************************************************)
(* Bounds of the model.                                                    *)
(***************************************************************************)
MaxToken == 2        \* distinct session tokens the daemon may issue
MaxCount == 2        \* the per-call request counters saturate here

\* Two calls overlap on the one client: the smallest number that shows every
\* interleaving of one call's steps with another's.
Calls == {"first", "second"}
Tokens == 1 .. MaxToken
NoToken == 0         \* sessionId is undefined (or the header is missing)

Sat(n) == IF n >= MaxCount THEN MaxCount ELSE n

(***************************************************************************)
(* Strings are sequences of words; a JavaScript value is a tagged record.  *)
(***************************************************************************)
Lower(w) ==
    CASE w = "Method" -> "method"
      [] w = "Not" -> "not"
      [] w = "RECOGNIZED" -> "recognized"
      [] OTHER -> w

ToLowerCase(s) == [i \in 1 .. Len(s) |-> Lower(s[i])]

Includes(s, sub) ==
    \E i \in 1 .. (Len(s) + 1) :
        /\ i + Len(sub) <= Len(s) + 1
        /\ SubSeq(s, i, i + Len(sub) - 1) = sub

NotRecognizedPhrase == <<"not", "recognized">>

JUndefined == [t |-> "undefined", s |-> <<>>, n |-> 0, a |-> <<>>]
JStr(ws) == [t |-> "string", s |-> ws, n |-> 0, a |-> <<>>]
JNum(k) == [t |-> "number", s |-> <<>>, n |-> k, a |-> <<>>]
JBool(b) == [t |-> "boolean", s |-> <<>>, n |-> IF b THEN 1 ELSE 0, a |-> <<>>]
JArr(es) == [t |-> "array", s |-> <<>>, n |-> 0, a |-> es]
JObj(name) == [t |-> "object", s |-> <<name>>, n |-> 0, a |-> <<>>]
JNull == [t |-> "null", s |-> <<>>, n |-> 0, a |-> <<>>]

Truthy(v) ==
    CASE v.t = "undefined" -> FALSE
      [] v.t = "null" -> FALSE
      [] v.t = "string" -> v.s # <<>>
      [] v.t = "number" -> v.n # 0
      [] v.t = "boolean" -> v.n = 1
      [] OTHER -> TRUE

\* a ?? b
Nullish(a, b) == IF a.t \in {"undefined", "null"} THEN b ELSE a

\* String(v) for the values that occur as messages
ToStringWords(v) == IF v.t = "string" THEN v.s ELSE <<v.t>>

(***************************************************************************)
(* Field-name translation of the legacy path.                              *)
(***************************************************************************)
ReplaceUnderscores(name) ==
    [i \in 1 .. Len(name) |-> IF name[i] = "_" THEN "-" ELSE name[i]]

LegacyMethodTable ==
    { <<"session", "_", "get">>, <<"session", "_", "set">>,
      <<"session", "_", "stats">>, <<"torrent", "_", "add">>,
      <<"torrent", "_", "get">>, <<"torrent", "_", "set">>,
      <<"torrent", "_", "remove">>,
      <<"torrent", "_", "set", "_", "location">>,
      <<"torrent", "_", "start">>, <<"torrent", "_", "stop">>,
      <<"torrent", "_", "verify">>, <<"torrent", "_", "reannounce">>,
      <<"queue", "_", "move", "_", "top">>, <<"queue", "_", "move", "_", "up">>,
      <<"queue", "_", "move", "_", "down">>,
      <<"queue", "_", "move", "_", "bottom">>, <<"free", "_", "space">> }

LegacyMethodMap(method) ==
    CASE method = <<"session", "_", "get">> -> <<"session", "-", "get">>
      [] method = <<"session", "_", "set">> -> <<"session", "-", "set">>
      [] method = <<"session", "_", "stats">> -> <<"session", "-", "stats">>
      [] method = <<"torrent", "_", "add">> -> <<"torrent", "-", "add">>
      [] method = <<"torrent", "_", "get">> -> <<"torrent", "-", "get">>
      [] method = <<"torrent", "_", "set">> -> <<"torrent", "-", "set">>
      [] method = <<"torrent", "_", "remove">> -> <<"torrent", "-", "remove">>
      [] method = <<"torrent", "_", "set", "_", "location">>
            -> <<"torrent", "-", "set", "-", "location">>
      [] method = <<"torrent", "_", "start">> -> <<"torrent", "-", "start">>
      [] method = <<"torrent", "_", "stop">> -> <<"torrent", "-", "stop">>
      [] method = <<"torrent", "_", "verify">> -> <<"torrent", "-", "verify">>
      [] method = <<"torrent", "_", "reannounce">>
            -> <<"torrent", "-", "reannounce">>
      [] method = <<"queue", "_", "move", "_", "top">>
            -> <<"queue", "-", "move", "-", "top">>
      [] method = <<"queue", "_", "move", "_", "up">>
            -> <<"queue", "-", "move", "-", "up">>
      [] method = <<"queue", "_", "move", "_", "down">>
            -> <<"queue", "-", "move", "-", "down">>
      [] method = <<"queue", "_", "move", "_", "bottom">>
            -> <<"queue", "-", "move", "-", "bottom">>
      [] method = <<"free", "_", "space">> -> <<"free", "-", "space">>

\* map is an object literal, so map[method] also finds the properties every
\* object inherits from Object.prototype; their values are functions (or,
\* for __proto__, the prototype object), all truthy and none a string
ObjectPrototypeNames ==
    { <<"constructor">>, <<"to", "String">>, <<"to", "Locale", "String">>,
      <<"value", "Of">>, <<"has", "Own", "Property">>,
      <<"is", "Prototype", "Of">>, <<"property", "Is", "Enumerable">>,
      <<"_", "_", "proto", "_", "_">>,
      <<"_", "_", "define", "Getter", "_", "_">>,
      <<"_", "_", "define", "Setter", "_", "_">>,
      <<"_", "_", "lookup", "Getter", "_", "_">>,
      <<"_", "_", "lookup", "Setter", "_", "_">> }

\* the inherited value, which is not a string
InheritedValue(name) == <<"Object.prototype.">> \o name

\* map[method] || method.replace(/_/g, "-")
toLegacyMethod(method) ==
    IF method \in LegacyMethodTable
    THEN LegacyMethodMap(method)
    ELSE IF method \in ObjectPrototypeNames
         THEN InheritedValue(method)
         ELSE ReplaceUnderscores(method)

\* first letter of a word to upper case; words that do not start with a-z
\* are left alone by the /_([a-z])/ pattern
LowerInitial ==
    {"dir", "done", "ever", "id", "name", "percent", "download", "local", "data",
     "when", "ratio", "connected", "date", "string"}

Capitalize(w) ==
    CASE w = "dir" -> "Dir"
      [] w = "done" -> "Done"
      [] w = "ever" -> "Ever"
      [] w = "id" -> "Id"
      [] w = "name" -> "Name"
      [] w = "percent" -> "Percent"
      [] w = "download" -> "Download"
      [] w = "local" -> "Local"
      [] w = "data" -> "Data"
      [] w = "when" -> "When"
      [] w = "ratio" -> "Ratio"
      [] w = "connected" -> "Connected"
      [] w = "date" -> "Date"
      [] w = "string" -> "String"
      [] OTHER -> w

RECURSIVE snakeToCamel(_)
snakeToCamel(value) ==
    IF Len(value) = 0 THEN <<>>
    ELSE IF Len(value) >= 2 /\ value[1] = "_" /\ value[2] \in LowerInitial
         THEN <<Capitalize(value[2])>> \o snakeToCamel(SubSeq(value, 3, Len(value)))
         ELSE <<value[1]>> \o snakeToCamel(Tail(value))

\* Array.from(new Set(xs)): first occurrences, in order
Dedupe(xs) ==
    LET first == {i \in 1 .. Len(xs) : \A j \in 1 .. (i - 1) : xs[j] # xs[i]}
    IN [k \in 1 .. Cardinality(first) |->
           xs[CHOOSE i \in first : Cardinality({j \in first : j < i}) = k - 1]]

FieldsKey == <<"fields">>

\* converted[key] = value on an insertion-ordered object
SetKey(obj, key, value) ==
    IF \E i \in 1 .. Len(obj) : obj[i].k = key
    THEN [i \in 1 .. Len(obj) |->
            IF obj[i].k = key THEN [k |-> key, v |-> value] ELSE obj[i]]
    ELSE Append(obj, [k |-> key, v |-> value])

LegacyKey_camel(key) == snakeToCamel(key)

LegacyKey(key) ==
    IF \E i \in 1 .. Len(key) : key[i] = "_" THEN ReplaceUnderscores(key) ELSE key

LegacyFields_camelOnly(value) ==
    JArr(Dedupe([i \in 1 .. Len(value.a) |-> JStr(snakeToCamel(value.a[i].s))]))

LegacyFields_noDedupe(value) ==
    JArr(value.a \o
        [i \in 1 .. Len(value.a) |-> JStr(snakeToCamel(value.a[i].s))])

LegacyFields(value) ==
    JArr(Dedupe(value.a \o
        [i \in 1 .. Len(value.a) |-> JStr(snakeToCamel(value.a[i].s))]))

RECURSIVE toLegacyParamsFrom(_, _)
toLegacyParamsFrom(params, converted) ==
    IF Len(params) = 0 THEN converted
    ELSE LET key == params[1].k
             value == params[1].v
             rest == Tail(params)
         IN IF value.t = "undefined"
            THEN toLegacyParamsFrom(rest, converted)
            ELSE IF value.t = "array" /\ key = FieldsKey
                 THEN toLegacyParamsFrom(rest,
                          SetKey(converted, FieldsKey, LegacyFields(value)))
                 ELSE toLegacyParamsFrom(rest,
                          SetKey(converted, LegacyKey(key), value))

toLegacyParams(params) == toLegacyParamsFrom(params, <<>>)

(***************************************************************************)
(* Requests, responses and what the two paths make of a response.          *)
(***************************************************************************)
StatusOk == 200
StatusConflict == 409

\* body of callJsonRpc: {jsonrpc, method, params, id: Date.now()}
JsonRpcBody(method, params) ==
    [shape |-> "modern", method |-> method, payload |-> params, hasId |-> TRUE]

LegacyBody_untranslated(method, params) ==
    [shape |-> "legacy", method |-> method, payload |-> params, hasId |-> FALSE]

\* body of callLegacy: {method: legacyMethod, arguments: legacyParams}
LegacyBody(method, params) ==
    [shape |-> "legacy", method |-> toLegacyMethod(method),
     payload |-> toLegacyParams(params), hasId |-> FALSE]

NoBody == [shape |-> "none", method |-> <<>>, payload |-> <<>>, hasId |-> FALSE]

SessionHeader_none(sid) == 0

\* value of the X-Transmission-Session-Id request header (NoToken: no header)
SessionHeader(sid) == sid

\* the 409 branch of send is taken
StaleSession_anyConflict(status, newSessionId) == status = StatusConflict

\* res.status === 409, and newSessionId is truthy
StaleSession(status, newSessionId) ==
    status = StatusConflict /\ newSessionId # NoToken

StoredToken_kept(old, newSessionId) == old

\* this.sessionId = newSessionId
StoredToken(old, newSessionId) == newSessionId

ObjBody(name, message, errorString, result, arguments) ==
    [kind |-> "object", name |-> name, error |-> message.t # "undefined",
     message |-> message, errorString |-> errorString,
     result |-> result, arguments |-> arguments, str |-> <<>>]

StrBody(ws) ==
    [kind |-> "string", name |-> "bare", error |-> FALSE,
     message |-> JUndefined, errorString |-> JUndefined,
     result |-> JUndefined, arguments |-> JUndefined, str |-> ws]

\* a body res.json() cannot parse
InvalidBody ==
    [kind |-> "invalid", name |-> "html", error |-> FALSE,
     message |-> JUndefined, errorString |-> JUndefined,
     result |-> JUndefined, arguments |-> JUndefined, str |-> <<>>]

\* fetch itself failed with this message
RejectedBody(ws) ==
    [kind |-> "rejected", name |-> "neterr", error |-> FALSE,
     message |-> JUndefined, errorString |-> JUndefined,
     result |-> JUndefined, arguments |-> JUndefined, str |-> ws]

NoResponse ==
    [kind |-> "none", name |-> "none", error |-> FALSE,
     message |-> JUndefined, errorString |-> JUndefined,
     result |-> JUndefined, arguments |-> JUndefined, str |-> <<>>]

MsgNotRecognized == <<"method", "name", "not", "recognized">>
MsgNotRecognizedCaps == <<"Method", "name", "Not", "RECOGNIZED">>
MsgSuccess == <<"success">>
MsgDaemonError == <<"invalid", "argument">>
MsgUnknownError == <<"Unknown", "Transmission", "RPC", "error">>
MsgSyntaxError == <<"Unexpected", "token">>
MsgFetchFailed == <<"fetch", "failed">>
MsgHostNotRecognized == <<"host", "not", "recognized">>
MsgDetail == <<"torrent", "not", "found">>

BModernOk == ObjBody("modernOk", JUndefined, JUndefined, JObj("payload"), JUndefined)
BModernErr == ObjBody("modernErr", JStr(MsgDaemonError), JUndefined, JUndefined, JUndefined)
\* an error envelope with error.data.errorString, beside a result
BModernErrDetail ==
    ObjBody("modernErrDetail", JStr(MsgDaemonError), JStr(MsgDetail),
            JObj("payload"), JUndefined)
BErrNotRec == ObjBody("errNotRec", JStr(MsgNotRecognizedCaps), JUndefined, JUndefined, JUndefined)
BResultNotRec == ObjBody("resultNotRec", JUndefined, JUndefined, JStr(MsgNotRecognized), JObj("args"))
BBareNotRec == StrBody(MsgNotRecognized)
BLegacyOk == ObjBody("legacyOk", JUndefined, JUndefined, JStr(MsgSuccess), JObj("args"))
BLegacyErr == ObjBody("legacyErr", JUndefined, JUndefined, JStr(MsgDaemonError), JUndefined)

Return(v) == [kind |-> "return", val |-> v]
Throw(ws) == [kind |-> "throw", val |-> JStr(ws)]
NoOutcome == [kind |-> "none", val |-> JUndefined]

\* the parsed body as a value (json itself)
WholeBody(json) ==
    IF json.kind = "string" THEN JStr(json.str) ELSE JObj(json.name)

InterpretJsonRpc_noDetail(json) ==
    IF json.error
    THEN Throw(IF Truthy(json.message)
               THEN ToStringWords(json.message)
               ELSE MsgUnknownError)
    ELSE Return(Nullish(json.result, Nullish(json.arguments, WholeBody(json))))

InterpretJsonRpc_raw(json) ==
    IF json.error THEN Throw(MsgUnknownError) ELSE Return(WholeBody(json))

\* callJsonRpc after await this.send(body)
InterpretJsonRpc(json) ==
    IF json.error
    THEN LET message == IF Truthy(json.message)
                        THEN ToStringWords(json.message)
                        ELSE MsgUnknownError
         IN IF Truthy(json.errorString)
            THEN Throw(message \o <<":">> \o ToStringWords(json.errorString))
            ELSE Throw(message)
    ELSE Return(Nullish(json.result, Nullish(json.arguments, WholeBody(json))))

\* callLegacy after await this.send(body)
InterpretLegacy(json) ==
    IF Truthy(json.result) /\ json.result # JStr(MsgSuccess)
    THEN Throw(ToStringWords(json.result))
    ELSE Return(Nullish(json.arguments, WholeBody(json)))

\* what awaiting send() gives the path that called it
Settle(path, json) ==
    CASE json.kind = "invalid" -> Throw(MsgSyntaxError)
      [] json.kind = "rejected" -> Throw(json.str)
      [] path = "modern" -> InterpretJsonRpc(json)
      [] OTHER -> InterpretLegacy(json)

\* the responses that carry the "not recognized" signal on the modern path:
\* a string payload with the phrase, or an error whose message has it
CarriesSignal(json) ==
    json \in {BErrNotRec, BResultNotRec, BBareNotRec,
              RejectedBody(MsgHostNotRecognized)}

IsSignal_anyError(inner) ==
    \/ inner.kind = "throw"
    \/ /\ inner.kind = "return"
       /\ inner.val.t = "string"
       /\ Includes(ToLowerCase(inner.val.s), NotRecognizedPhrase)

IsSignal_returnsOnly(inner) ==
    /\ inner.kind = "return"
    /\ inner.val.t = "string"
    /\ Includes(ToLowerCase(inner.val.s), NotRecognizedPhrase)

\* the two tests of call() for the "not recognized" signal
IsSignal(inner) ==
    /\ inner.kind \in {"return", "throw"}
    /\ inner.val.t = "string"
    /\ Includes(ToLowerCase(inner.val.s), NotRecognizedPhrase)

UseLegacy_never(prefer) == FALSE

\* if (this.preferLegacy) return this.callLegacy(...)
UseLegacy(prefer) == prefer

NextPreferLegacy_latest(prefer, signal) == signal

NextPreferLegacy_unset(prefer, signal) == prefer

\* this.preferLegacy = true, on the signal only
NextPreferLegacy(prefer, signal) == IF signal THEN TRUE ELSE prefer

(***************************************************************************)
(* The environment: what the daemon may answer.                            *)
(***************************************************************************)
DaemonKinds == {"modern", "legacy", "any"}

StaleAnswers == {[status |-> StatusConflict, tok |-> t, body |-> InvalidBody] : t \in Tokens}

OkAnswers(bodies) == {[status |-> StatusOk, tok |-> NoToken, body |-> b] : b \in bodies}

AllBodies ==
    {BModernOk, BModernErr, BModernErrDetail, BErrNotRec, BResultNotRec,
     BBareNotRec, BLegacyOk, BLegacyErr, InvalidBody}

DaemonResponses(k, shape) ==
    CASE k = "modern" ->
            StaleAnswers \cup OkAnswers({BModernOk, BModernErr, BModernErrDetail})
      [] k = "legacy" /\ shape = "modern" ->
            StaleAnswers \cup OkAnswers({BErrNotRec, BResultNotRec, BBareNotRec})
      [] k = "legacy" /\ shape # "modern" ->
            StaleAnswers \cup OkAnswers({BLegacyOk, BLegacyErr})
      [] OTHER ->
            StaleAnswers \cup OkAnswers(AllBodies)
            \cup {[status |-> StatusConflict, tok |-> NoToken, body |-> b] :
                     b \in {BLegacyOk, InvalidBody}}

TransportErrors == {MsgFetchFailed, MsgHostNotRecognized}

MethodStop == <<"torrent", "_", "stop">>
MethodCustom == <<"group", "_", "get">>
ParamsIds == << [k |-> <<"ids">>, v |-> JArr(<<JNum(1), JNum(2)>>)] >>
ParamsMixed ==
    << [k |-> <<"delete", "_", "local", "_", "data">>, v |-> JBool(TRUE)],
       [k |-> <<"ids">>, v |-> JUndefined] >>

CallInputs ==
    { [method |-> MethodStop, params |-> ParamsIds],
      [method |-> MethodCustom, params |-> ParamsMixed] }

(***************************************************************************)
(* State.                                                                  *)
(*   preferLegacy, sessionId   the two mutable fields of the client        *)
(*   pc                        where each call stands: "idle" (not begun,  *)
(*                             or settled), "fetch" (send awaits fetch),   *)
(*                             "resume" (callJsonRpc settled, call() is    *)
(*                             about to go on)                             *)
(*   path                      "modern" (callJsonRpc), "legacy" (callLegacy*)
(*                             entered at the top of call), "redo"         *)
(*                             (callLegacy entered after the signal)       *)
(*   method, params            the arguments of the call in progress       *)
(*   req                       the request in flight                       *)
(*   res                       what send() gave the call last              *)
(*   outcome                   what the caller of call() observes          *)
(*   kind                      the daemon the client talks to              *)
(*   hist, lastIssued          history of the run (read by no action):     *)
(*                             the requests of the call in progress, and   *)
(*                             the token of the latest 409 response        *)
(*   tool, input, output       the function or tool handler under study in *)
(*                             the specifications of the pure functions,   *)
(*                             its argument and its successive results;    *)
(*                             the client itself never touches them        *)
(***************************************************************************)
VARIABLES preferLegacy, sessionId, pc, path, method, params, req, res,
          outcome, kind, hist, lastIssued, tool, input, output

vars == <<preferLegacy, sessionId, pc, path, method, params, req, res,
          outcome, kind, hist, lastIssued, tool, input, output>>

NoRequest == [body |-> NoBody, token |-> NoToken]

\* nModern, nLegacy: requests built by callJsonRpc and by callLegacy;
\* rModern, rLegacy: resends of them by the 409 branch of send;
\* stale: 409 responses that carried a token; issued: the token of the last
NoHistory ==
    [startedLegacy |-> FALSE, sawSignal |-> FALSE,
     nModern |-> 0, rModern |-> 0, nLegacy |-> 0, rLegacy |-> 0,
     stale |-> 0, issued |-> NoToken, bare |-> FALSE]

Init ==
    /\ preferLegacy = FALSE
    /\ sessionId = NoToken
    /\ pc = [c \in Calls |-> "idle"]
    /\ path = [c \in Calls |-> "none"]
    /\ method = [c \in Calls |-> <<>>]
    /\ params = [c \in Calls |-> <<>>]
    /\ req = [c \in Calls |-> NoRequest]
    /\ res = [c \in Calls |-> NoResponse]
    /\ outcome = [c \in Calls |-> NoOutcome]
    /\ kind \in DaemonKinds
    /\ hist = [c \in Calls |-> NoHistory]
    /\ lastIssued = NoToken
    /\ tool = "none"
    /\ input = JUndefined
    /\ output = <<>>

\* call(): entry up to the first fetch()
Call(c, in) ==
    /\ pc[c] = "idle"
    /\ method' = [method EXCEPT ![c] = in.method]
    /\ params' = [params EXCEPT ![c] = in.params]
    /\ IF UseLegacy(preferLegacy)
       THEN /\ path' = [path EXCEPT ![c] = "legacy"]
            /\ req' = [req EXCEPT ![c] =
                          [body |-> LegacyBody(in.method, in.params),
                           token |-> SessionHeader(sessionId)]]
            /\ hist' = [hist EXCEPT ![c] =
                          [NoHistory EXCEPT !.startedLegacy = preferLegacy,
                                            !.nLegacy = 1]]
       ELSE /\ path' = [path EXCEPT ![c] = "modern"]
            /\ req' = [req EXCEPT ![c] =
                          [body |-> JsonRpcBody(in.method, in.params),
                           token |-> SessionHeader(sessionId)]]
            /\ hist' = [hist EXCEPT ![c] =
                          [NoHistory EXCEPT !.startedLegacy = preferLegacy,
                                            !.nModern = 1]]
    /\ pc' = [pc EXCEPT ![c] = "fetch"]
    /\ res' = [res EXCEPT ![c] = NoResponse]
    /\ outcome' = [outcome EXCEPT ![c] = NoOutcome]
    /\ UNCHANGED <<preferLegacy, sessionId, kind, lastIssued, tool, input, output>>

\* the promise of call() settles: the caller observes the outcome o
Settled(c, o) ==
    /\ outcome' = [outcome EXCEPT ![c] = o]
    /\ pc' = [pc EXCEPT ![c] = "idle"]
    /\ method' = [method EXCEPT ![c] = <<>>]
    /\ params' = [params EXCEPT ![c] = <<>>]
    /\ req' = [req EXCEPT ![c] = NoRequest]
    /\ hist' = [hist EXCEPT ![c] = NoHistory]

\* send() returned json (or threw) to the path that awaited it; bare records
\* that json is the body of a 409 response without a token
Continue(c, json, bare) ==
    /\ res' = [res EXCEPT ![c] = json]
    /\ IF path[c] = "modern"
       THEN /\ pc' = [pc EXCEPT ![c] = "resume"]
            /\ req' = [req EXCEPT ![c] = NoRequest]
            /\ hist' = [hist EXCEPT ![c].sawSignal = CarriesSignal(json),
                                    ![c].bare = bare]
            /\ UNCHANGED <<method, params, outcome>>
       ELSE Settled(c, Settle("legacy", json))
    /\ UNCHANGED <<preferLegacy, sessionId, path, kind, lastIssued,
                   tool, input, output>>

\* send(): fetch() resolved with response r, a 409 with a token is answered
\* by send(body) again, anything else by res.json()
FetchResolves(c, r) ==
    /\ pc[c] = "fetch"
    /\ IF StaleSession(r.status, r.tok)
       THEN /\ sessionId' = StoredToken(sessionId, r.tok)
            /\ req' = [req EXCEPT ![c].token = SessionHeader(sessionId')]
            /\ hist' = [hist EXCEPT
                          ![c].stale = Sat(@ + 1),
                          ![c].issued = r.tok,
                          ![c].rModern = IF path[c] = "modern" THEN Sat(@ + 1) ELSE @,
                          ![c].rLegacy = IF path[c] # "modern" THEN Sat(@ + 1) ELSE @]
            /\ lastIssued' = r.tok
            /\ UNCHANGED <<preferLegacy, pc, path, method, params, res,
                           outcome, kind, tool, input, output>>
       ELSE Continue(c, r.body, r.status = StatusConflict)

\* send(): fetch() rejected with a transport error
FetchRejects(c, e) ==
    /\ pc[c] = "fetch"
    /\ kind = "any"
    /\ Continue(c, RejectedBody(e), FALSE)

\* call(): after await this.callJsonRpc(...), in the try or in the catch
Resume(c) ==
    /\ pc[c] = "resume"
    /\ LET inner == Settle("modern", res[c])
       IN /\ preferLegacy' = NextPreferLegacy(preferLegacy, IsSignal(inner))
          /\ IF IsSignal(inner)
             THEN /\ path' = [path EXCEPT ![c] = "redo"]
                  /\ req' = [req EXCEPT ![c] =
                                [body |-> LegacyBody(method[c], params[c]),
                                 token |-> SessionHeader(sessionId)]]
                  /\ hist' = [hist EXCEPT ![c].nLegacy = Sat(@ + 1),
                                          ![c].stale = 0,
                                          ![c].issued = NoToken]
                  /\ pc' = [pc EXCEPT ![c] = "fetch"]
                  /\ res' = [res EXCEPT ![c] = NoResponse]
                  /\ UNCHANGED <<method, params, outcome>>
             ELSE /\ Settled(c, inner)
                  /\ UNCHANGED <<path, res>>
    /\ UNCHANGED <<sessionId, kind, lastIssued, tool, input, output>>

Next ==
    \/ \E c \in Calls, in \in CallInputs : Call(c, in)
    \/ \E c \in Calls :
          \E r \in DaemonResponses(kind, req[c].body.shape) : FetchResolves(c, r)
    \/ \E c \in Calls, e \in TransportErrors : FetchRejects(c, e)
    \/ \E c \in Calls : Resume(c)

Spec == Init /\ [][Next]_vars

\* every request is answered, and every continuation that is ready runs
Answer(c) ==
    \/ \E r \in DaemonResponses(kind, req[c].body.shape) : FetchResolves(c, r)
    \/ \E e \in TransportErrors : FetchRejects(c, e)

FairSpec ==
    Init /\ [][Next]_vars
         /\ \A c \in Calls : WF_vars(Answer(c)) /\ WF_vars(Resume(c))

(***************************************************************************)
(* The identifier normalizer (src/src/utils.ts, normalizeTorrentIds).      *)
(* An identifier string is a sequence of tokens, a decimal digit being a   *)
(* token of its own, so that the digit test and Number() are computed.     *)
(***************************************************************************)
MaxLen == 2          \* longest array of identifiers (and of field names)

SeqsUpTo(S, n) == UNION {[1 .. k -> S] : k \in 0 .. n}

Digits == {"0", "1", "2", "3", "4", "5", "6", "7", "8", "9"}

DigitValue(d) ==
    CASE d = "0" -> 0 [] d = "1" -> 1 [] d = "2" -> 2 [] d = "3" -> 3
      [] d = "4" -> 4 [] d = "5" -> 5 [] d = "6" -> 6 [] d = "7" -> 7
      [] d = "8" -> 8 [] d = "9" -> 9

\* /^\d+$/.test(s)
IsDigits(s) == Len(s) >= 1 /\ \A i \in 1 .. Len(s) : s[i] \in Digits

\* Number(s) of a digit-only string
RECURSIVE Number(_)
Number(s) ==
    IF Len(s) = 0 THEN 0
    ELSE 10 * Number(SubSeq(s, 1, Len(s) - 1)) + DigitValue(s[Len(s)])

SelectorAll == <<"all">>
RecentlyActiveUnderscore == <<"recently", "_", "active">>
RecentlyActive == <<"recently", "-", "active">>

IsRecentlyActive_hyphenOnly(id) == id = JStr(RecentlyActive)

\* id === "recently_active" || id === "recently-active"
IsRecentlyActive(id) ==
    id = JStr(RecentlyActiveUnderscore) \/ id = JStr(RecentlyActive)

NormalizeElement_sentinelOnly(id) ==
    IF IsRecentlyActive(id) THEN JStr(RecentlyActive) ELSE id

\* the callback of ids.map
NormalizeElement(id) ==
    IF IsRecentlyActive(id) THEN JStr(RecentlyActive)
    ELSE IF id.t = "string" /\ IsDigits(id.s) THEN JNum(Number(id.s))
    ELSE id

normalizeTorrentIds_wrapAll(ids) ==
    IF ids.t = "array"
    THEN JArr([i \in 1 .. Len(ids.a) |-> NormalizeElement(ids.a[i])])
    ELSE JArr(<<ids>>)

normalizeTorrentIds(ids) ==
    IF ids = JStr(SelectorAll) THEN JUndefined
    ELSE IF IsRecentlyActive(ids) THEN JStr(RecentlyActive)
    ELSE IF ids.t = "array"
         THEN JArr([i \in 1 .. Len(ids.a) |-> NormalizeElement(ids.a[i])])
    ELSE IF ids.t = "string" /\ IsDigits(ids.s)
         THEN JArr(<<JNum(Number(ids.s))>>)
    ELSE JArr(<<ids>>)

\* a numeric id, digit-only strings (one with a leading zero), a hash, a
\* string that only begins with a digit, and the sentinels
IdElements ==
    { JNum(1), JStr(<<"7">>), JStr(<<"0", "7">>), JStr(<<"1", "2">>),
      JStr(<<"abc">>), JStr(<<"1", "abc">>), JStr(RecentlyActiveUnderscore),
      JStr(RecentlyActive), JStr(SelectorAll) }

\* TorrentIdInput: a number, a string, or an array of them
TorrentIdInputs ==
    IdElements \cup {JArr(es) : es \in SeqsUpTo(IdElements, MaxLen)}

clientVars == <<preferLegacy, sessionId, pc, path, method, params, req, res,
                outcome, kind, hist, lastIssued>>

\* no call is in progress and none has been made
ClientIdle ==
    /\ sessionId = NoToken
    /\ pc = [c \in Calls |-> "idle"]
    /\ path = [c \in Calls |-> "none"]
    /\ method = [c \in Calls |-> <<>>]
    /\ params = [c \in Calls |-> <<>>]
    /\ req = [c \in Calls |-> NoRequest]
    /\ res = [c \in Calls |-> NoResponse]
    /\ outcome = [c \in Calls |-> NoOutcome]
    /\ kind = "any"
    /\ hist = [c \in Calls |-> NoHistory]
    /\ lastIssued = NoToken

IdsInit ==
    /\ ClientIdle
    /\ preferLegacy = FALSE
    /\ tool = "normalizeTorrentIds"
    /\ input \in TorrentIdInputs
    /\ output = <<>>

\* normalizeTorrentIds(ids)
Normalize ==
    /\ tool = "normalizeTorrentIds"
    /\ Len(output) = 0
    /\ output' = <<normalizeTorrentIds(input)>>
    /\ UNCHANGED <<clientVars, tool, input>>

\* normalizeTorrentIds applied to its own result
NormalizeAgain ==
    /\ tool = "normalizeTorrentIds"
    /\ Len(output) = 1
    /\ output' = Append(output, normalizeTorrentIds(output[1]))
    /\ UNCHANGED <<clientVars, tool, input>>

IdsNext == Normalize \/ NormalizeAgain

IdsSpec == IdsInit /\ [][IdsNext]_vars

(***************************************************************************)
(* The torrent-scoped tool handlers (src/src/index.ts): each normalizes    *)
(* the selector, builds the params object and calls the client.            *)
(***************************************************************************)
IdsKey == <<"ids">>

\* the property is present with a value other than undefined
Defined(e) == e.v.t # "undefined"

\* delete obj[key]
RECURSIVE DeleteKey(_, _)
DeleteKey(obj, key) ==
    IF Len(obj) = 0 THEN <<>>
    ELSE IF obj[1].k = key THEN DeleteKey(Tail(obj), key)
    ELSE <<obj[1]>> \o DeleteKey(Tail(obj), key)

\* the fields the get handler asks for
GetTorrentFields ==
    << <<"id">>, <<"name">>, <<"status">>,
       <<"percent", "_", "done">>, <<"percent", "Done">>,
       <<"size", "_", "when", "_", "done">>, <<"size", "When", "Done">>,
       <<"downloaded", "_", "ever">>, <<"downloaded", "Ever">>,
       <<"uploaded", "_", "ever">>, <<"uploaded", "Ever">>,
       <<"upload", "_", "ratio">>, <<"upload", "Ratio">>,
       <<"rate", "_", "download">>, <<"rate", "Upload">>, <<"eta">>,
       <<"peers", "_", "connected">>, <<"peers", "Connected">>,
       <<"added", "_", "date">>, <<"added", "Date">>,
       <<"done", "_", "date">>, <<"done", "Date">>, <<"labels">>,
       <<"error">>, <<"error", "_", "string">>, <<"error", "String">>,
       <<"comment">> >>

\* the optional settings of the set handler, in the order it copies them
SetOptionKeys ==
    << <<"labels">>, <<"bandwidth", "Priority">>, <<"download", "Limit">>,
       <<"download", "Limited">>, <<"upload", "Limit">>,
       <<"upload", "Limited">>, <<"seed", "Ratio", "Limit">>,
       <<"seed", "Ratio", "Mode">> >>

\* if (params.x !== undefined) options.x = params.x, for each setting
SetOptions(given) ==
    SelectSeq([i \in 1 .. Len(SetOptionKeys) |->
                  [k |-> SetOptionKeys[i], v |-> given[i]]], Defined)

NoOptions == [i \in 1 .. Len(SetOptionKeys) |-> JUndefined]

GivenOptions ==
    { NoOptions,
      [NoOptions EXCEPT ![5] = JNum(1)],
      [NoOptions EXCEPT ![1] = JArr(<<JStr(<<"iso">>)>>), ![7] = JNum(2)] }

QueueDirections == {"top", "up", "down", "bottom"}

TorrentTools ==
    { "transmission_get_torrent", "transmission_remove_torrent",
      "transmission_pause_torrent", "transmission_resume_torrent",
      "transmission_verify_torrent", "transmission_reannounce_torrent",
      "transmission_move_torrent", "transmission_set_torrent",
      "transmission_queue_move" }

\* the names transmission_set_session copies into its settings, in order
SessionSettingKeys ==
    << <<"alt", "_", "speed", "_", "down">>, <<"alt", "_", "speed", "_", "up">>,
       <<"alt", "_", "speed", "_", "enabled">>, <<"download", "_", "dir">>,
       <<"speed", "_", "limit", "_", "down">>,
       <<"speed", "_", "limit", "_", "down", "_", "enabled">>,
       <<"speed", "_", "limit", "_", "up">>,
       <<"speed", "_", "limit", "_", "up", "_", "enabled">>,
       <<"seed", "Ratio", "Limit">>, <<"seed", "Ratio", "Limited">> >>

SessionTools ==
    { "transmission_add_torrent", "transmission_list_torrents",
      "transmission_get_session", "transmission_set_session",
      "transmission_get_stats", "transmission_free_space" }

DefaultArgs ==
    [ flag |-> TRUE, direction |-> "top", given |-> NoOptions,
      download_dir |-> JUndefined, paused |-> JUndefined, labels |-> JUndefined,
      torrent |-> "magnet",
      settings |-> [i \in 1 .. Len(SessionSettingKeys) |-> JUndefined] ]

\* the arguments of each tool beside the selector: delete_local_data, move,
\* direction, the optional settings
ToolArgs(t) ==
    CASE t \in {"transmission_remove_torrent", "transmission_move_torrent"} ->
            {[DefaultArgs EXCEPT !.flag = b] : b \in BOOLEAN}
      [] t = "transmission_queue_move" ->
            {[DefaultArgs EXCEPT !.direction = d] : d \in QueueDirections}
      [] t = "transmission_set_torrent" ->
            {[DefaultArgs EXCEPT !.given = g] : g \in GivenOptions}
      [] t = "transmission_add_torrent" ->
            {[DefaultArgs EXCEPT !.download_dir = d, !.paused = p,
                                 !.labels = l, !.torrent = k] :
                d \in {JUndefined, JStr(<<>>), JStr(<<"/", "dl">>)},
                p \in {JUndefined, JBool(TRUE)},
                l \in {JUndefined, JArr(<<>>), JArr(<<JStr(<<"iso">>)>>)},
                k \in {"magnet", "url", "base64"}}
      [] t = "transmission_set_session" ->
            {[DefaultArgs EXCEPT !.settings = g] :
                g \in { DefaultArgs.settings,
                        [DefaultArgs.settings EXCEPT ![4] = JStr(<<"/", "dl">>)],
                        [DefaultArgs.settings EXCEPT ![3] = JBool(TRUE),
                                                     ![9] = JNum(2)] }}
      [] OTHER -> {DefaultArgs}

OnlyIds(ids) == << [k |-> IdsKey, v |-> ids] >>

\* the argument each handler passes to transmission.call
HandlerCall(t, selector, args) ==
    LET ids == normalizeTorrentIds(selector)
    IN CASE t = "transmission_get_torrent" ->
              [method |-> <<"torrent", "_", "get">>,
               params |-> << [k |-> IdsKey, v |-> ids],
                             [k |-> FieldsKey,
                              v |-> JArr([i \in 1 .. Len(GetTorrentFields) |->
                                             JStr(GetTorrentFields[i])])] >>]
         [] t = "transmission_remove_torrent" ->
              [method |-> <<"torrent", "_", "remove">>,
               params |-> << [k |-> IdsKey, v |-> ids],
                             [k |-> <<"delete", "_", "local", "_", "data">>,
                              v |-> JBool(args.flag)] >>]
         [] t = "transmission_pause_torrent" ->
              [method |-> <<"torrent", "_", "stop">>, params |-> OnlyIds(ids)]
         [] t = "transmission_resume_torrent" ->
              [method |-> <<"torrent", "_", "start">>, params |-> OnlyIds(ids)]
         [] t = "transmission_verify_torrent" ->
              [method |-> <<"torrent", "_", "verify">>, params |-> OnlyIds(ids)]
         [] t = "transmission_reannounce_torrent" ->
              [method |-> <<"torrent", "_", "reannounce">>,
               params |-> OnlyIds(ids)]
         [] t = "transmission_move_torrent" ->
              LET built == << [k |-> IdsKey, v |-> ids],
                              [k |-> <<"move">>, v |-> JBool(args.flag)],
                              [k |-> <<"location">>, v |-> JStr(<<"/", "data">>)] >>
              IN [method |-> <<"torrent", "_", "set", "_", "location">>,
                  params |-> IF ids.t = "undefined"
                             THEN DeleteKey(built, IdsKey)
                             ELSE built]
         [] t = "transmission_set_torrent" ->
              [method |-> <<"torrent", "_", "set">>,
               params |-> OnlyIds(ids) \o SetOptions(args.given)]
         [] t = "transmission_queue_move" ->
              [method |-> <<"queue", "_", "move", "_", args.direction>>,
               params |-> OnlyIds(ids)]
         [] t = "transmission_add_torrent" ->
              \* { download_dir: "/downloads", paused: false, ...options,
              \*   filename | metainfo: params.torrent }: a key of options
              \* that the literal already has takes its place, a new key is
              \* appended
              LET paused == IF args.paused.t # "undefined"
                            THEN args.paused ELSE JBool(FALSE)
                  dir == IF Truthy(args.download_dir)
                         THEN << [k |-> <<"download", "-", "dir">>,
                                  v |-> args.download_dir] >>
                         ELSE <<>>
                  labels == IF args.labels.t = "array" /\ Len(args.labels.a) > 0
                            THEN << [k |-> <<"labels">>, v |-> args.labels] >>
                            ELSE <<>>
              IN [method |-> <<"torrent", "_", "add">>,
                  params |->
                      << [k |-> <<"download", "_", "dir">>,
                          v |-> JStr(<<"/", "downloads">>)],
                         [k |-> <<"paused">>, v |-> paused] >>
                      \o dir \o labels
                      \o << [k |-> IF args.torrent = "base64"
                                   THEN <<"metainfo">> ELSE <<"filename">>,
                             v |-> JStr(<<args.torrent>>)] >>]
         [] t = "transmission_list_torrents" ->
              [method |-> <<"torrent", "_", "get">>,
               params |-> << [k |-> FieldsKey,
                              v |-> JArr([i \in 1 .. Len(GetTorrentFields) |->
                                             JStr(GetTorrentFields[i])])] >>]
         [] t = "transmission_get_session" ->
              [method |-> <<"session", "_", "get">>, params |-> <<>>]
         [] t = "transmission_set_session" ->
              [method |-> <<"session", "_", "set">>,
               params |-> SelectSeq([i \in 1 .. Len(SessionSettingKeys) |->
                                       [k |-> SessionSettingKeys[i],
                                        v |-> args.settings[i]]], Defined)]
         [] t = "transmission_get_stats" ->
              [method |-> <<"session", "_", "stats">>, params |-> <<>>]
         [] t = "transmission_free_space" ->
              [method |-> <<"free", "_", "space">>,
               params |-> << [k |-> <<"path">>, v |-> JStr(<<"/", "data">>)] >>]

\* JSON.stringify(body): a property whose value is undefined is left out
JSONStringify(body) ==
    [body EXCEPT !.payload = SelectSeq(body.payload, Defined)]

ToolInit ==
    /\ ClientIdle
    /\ preferLegacy \in BOOLEAN
    /\ tool \in TorrentTools
    /\ input \in TorrentIdInputs
    /\ output = <<>>

\* a handler runs up to the first fetch() of its call
Invoke ==
    /\ tool \in TorrentTools
    /\ \E args \in ToolArgs(tool) : Call("first", HandlerCall(tool, input, args))

ToolNext == Invoke

ToolSpec == ToolInit /\ [][ToolNext]_vars

(***************************************************************************)
(* A whole tool handler: its one client call, the call's run, and the      *)
(* response the handler returns to the tool host (index.ts; utils.ts,      *)
(* createToolResponse, createErrorResponse, handleTransmissionError).      *)
(***************************************************************************)
\* the tool's arguments: a selector for the torrent tools, and the rest
HandlerInputs(t) ==
    [ ids : IF t \in TorrentTools
            THEN { JStr(SelectorAll), JStr(RecentlyActiveUnderscore), JNum(1),
                   JStr(<<"1", "2">>),
                   JArr(<<JStr(<<"7">>), JStr(<<"abc">>)>>) }
            ELSE {JUndefined},
      args : ToolArgs(t) ]

\* the text for an Error with this message
handleTransmissionError(message) ==
    LET lower == ToLowerCase(message)
    IN IF Includes(lower, <<"econnrefused">>)
          \/ Includes(lower, <<"connection", "refused">>)
       THEN <<"Error:", "Could", "not", "connect", "to", "Transmission", "daemon.">>
       ELSE IF Includes(lower, <<"401">>) \/ Includes(lower, <<"unauthorized">>)
       THEN <<"Error:", "Authentication", "failed.">>
       ELSE IF Includes(lower, <<"timeout">>) \/ Includes(lower, <<"etimedout">>)
       THEN <<"Error:", "Request", "timed", "out.">>
       ELSE <<"Error:">> \o message

createToolResponse(text) == [isError |-> FALSE, text |-> text]

createErrorResponse_asSuccess(error) == createToolResponse(<<"Success">>)

createErrorResponse(error) ==
    [isError |-> TRUE, text |-> handleTransmissionError(error.s)]

HandlerInit ==
    /\ ClientIdle
    /\ preferLegacy \in BOOLEAN
    /\ tool \in TorrentTools \cup SessionTools
    /\ input \in HandlerInputs(tool)
    /\ output = <<>>

\* the handler runs up to the first fetch() of its one client call
Handle ==
    /\ tool \in TorrentTools \cup SessionTools
    /\ outcome["first"] = NoOutcome
    /\ Len(output) = 0
    /\ Call("first", HandlerCall(tool, input.ids, input.args))

\* the call has settled: the try block renders the result, or throws while
\* rendering it, and the catch block turns whatever was thrown into an
\* error response
Respond ==
    /\ tool \in TorrentTools \cup SessionTools
    /\ Len(output) = 0
    /\ pc["first"] = "idle"
    /\ outcome["first"] # NoOutcome
    /\ \/ /\ outcome["first"].kind = "throw"
          /\ output' = <<createErrorResponse(outcome["first"].val)>>
       \/ /\ outcome["first"].kind = "return"
          /\ \/ output' = <<createToolResponse(<<"Success">>)>>
             \/ output' = <<createErrorResponse(
                               JStr(<<"Cannot", "read", "properties">>))>>
    /\ UNCHANGED <<clientVars, tool, input>>

HandlerNext ==
    \/ Handle
    \/ \E r \in DaemonResponses(kind, req["first"].body.shape) :
          FetchResolves("first", r)
    \/ \E e \in TransportErrors : FetchRejects("first", e)
    \/ Resume("first")
    \/ Respond

HandlerSpec == HandlerInit /\ [][HandlerNext]_vars

(***************************************************************************)
(* The parameter translation of the legacy path, applied to mappings of    *)
(* its own (rpcClient.ts, toLegacyParams).                                 *)
(***************************************************************************)
\* canonical keys: snake_case (one with a doubled underscore) and camelCase
ParamKeys ==
    { <<"ids">>, <<"delete", "_", "local", "_", "data">>,
      <<"download", "_", "dir">>, <<"seed", "Ratio", "Limit">>,
      <<"peer", "_", "_", "limit">> }

\* absent, null, falsy and truthy values, a string and an array whose own
\* text has underscores
ParamValues ==
    { JUndefined, JNull, JNum(1), JBool(FALSE), JStr(<<"a", "_", "b">>),
      JArr(<<JStr(<<"x", "_", "y">>)>>) }

ParamEntries == {[k |-> key, v |-> value] : key \in ParamKeys, value \in ParamValues}

\* an object has each key once
DistinctKeys(obj) ==
    \A i, j \in 1 .. Len(obj) : obj[i].k = obj[j].k => i = j

PlainParams == {p \in SeqsUpTo(ParamEntries, MaxLen) : DistinctKeys(p)}

\* names a fields list may hold: snake_case, camelCase, a doubled and a
\* leading underscore, an underscore before a capital
FieldNames ==
    { <<"id">>, <<"percent", "_", "done">>, <<"percent", "Done">>,
      <<"done", "_", "_", "name">>, <<"_", "id">>, <<"error", "_", "ID">> }

FieldsParams ==
    { << [k |-> FieldsKey,
          v |-> JArr([i \in 1 .. Len(names) |-> JStr(names[i])])] >> :
        names \in SeqsUpTo(FieldNames, MaxLen) }

ParamsInit ==
    /\ ClientIdle
    /\ preferLegacy = TRUE
    /\ tool = "toLegacyParams"
    /\ input \in PlainParams \cup FieldsParams
    /\ output = <<>>

\* toLegacyParams(params)
Translate ==
    /\ tool = "toLegacyParams"
    /\ Len(output) = 0
    /\ output' = <<toLegacyParams(input)>>
    /\ UNCHANGED <<clientVars, tool, input>>

\* toLegacyParams applied to its own result
TranslateAgain ==
    /\ tool = "toLegacyParams"
    /\ Len(output) = 1
    /\ output' = Append(output, toLegacyParams(output[1]))
    /\ UNCHANGED <<clientVars, tool, input>>

ParamsNext == Translate \/ TranslateAgain

ParamsSpec == ParamsInit /\ [][ParamsNext]_vars

(***************************************************************************)
(* The method translation of the legacy path, applied to names of its own  *)
(* (rpcClient.ts, toLegacyMethod).                                         *)
(***************************************************************************)
\* the words of ws joined by underscores
RECURSIVE JoinUnderscore(_)
JoinUnderscore(ws) ==
    IF Len(ws) = 0 THEN <<>>
    ELSE IF Len(ws) = 1 THEN <<ws[1]>>
    ELSE <<ws[1], "_">> \o JoinUnderscore(Tail(ws))

\* method: string -- the seventeen names of the table, snake_case names of
\* up to MaxLen words (some of them in the table), a camelCase name, and the
\* names an object literal inherits
MethodNames ==
    LegacyMethodTable
    \cup {JoinUnderscore(ws) :
            ws \in SeqsUpTo({ "session", "torrent", "queue", "move", "get",
                              "set", "stats", "top", "free", "space", "group",
                              "constructor" }, MaxLen) \ {<<>>}}
    \cup {<<"torrent", "Get">>}
    \cup ObjectPrototypeNames

MethodInit ==
    /\ ClientIdle
    /\ preferLegacy = TRUE
    /\ tool = "toLegacyMethod"
    /\ input \in MethodNames
    /\ output = <<>>

\* toLegacyMethod(method)
TranslateMethod ==
    /\ tool = "toLegacyMethod"
    /\ Len(output) = 0
    /\ output' = <<toLegacyMethod(input)>>
    /\ UNCHANGED <<clientVars, tool, input>>

MethodNext == TranslateMethod

MethodSpec == MethodInit /\ [][MethodNext]_vars

(***************************************************************************)
(* The reading of session statistics (utils.ts, formatStatsMarkdown, and   *)
(* the JSON branch of transmission_get_stats in index.ts).  A response is  *)
(* a function from the keys it carries to their values; a statistics block *)
(* is an object named by what it holds.                                    *)
(***************************************************************************)
\* o[k] of JavaScript: undefined for a key the object does not carry
Get(o, k) == IF k \in DOMAIN o THEN o[k] ELSE JUndefined

StatsScalars ==
    { "active_torrent_count", "paused_torrent_count", "torrent_count",
      "download_speed", "upload_speed" }

StatsBlocks == {"current_stats", "cumulative_stats"}

BlockAttrs ==
    { "downloaded_bytes", "uploaded_bytes", "files_added", "seconds_active",
      "session_count" }

\* the camelCase key the code reads for an attribute
CamelSpelling(attr) ==
    CASE attr = "active_torrent_count" -> "activeTorrentCount"
      [] attr = "paused_torrent_count" -> "pausedTorrentCount"
      [] attr = "torrent_count" -> "torrentCount"
      [] attr = "download_speed" -> "downloadSpeed"
      [] attr = "upload_speed" -> "uploadSpeed"
      [] attr = "current_stats" -> "currentStats"
      [] attr = "cumulative_stats" -> "cumulativeStats"
      [] attr = "downloaded_bytes" -> "downloadedBytes"
      [] attr = "uploaded_bytes" -> "uploadedBytes"
      [] attr = "files_added" -> "filesAdded"
      [] attr = "seconds_active" -> "secondsActive"
      [] attr = "session_count" -> "sessionCount"

\* the hyphenated key of an attribute
HyphenSpelling(attr) ==
    CASE attr = "active_torrent_count" -> "active-torrent-count"
      [] attr = "paused_torrent_count" -> "paused-torrent-count"
      [] attr = "torrent_count" -> "torrent-count"
      [] attr = "download_speed" -> "download-speed"
      [] attr = "upload_speed" -> "upload-speed"
      [] attr = "current_stats" -> "current-stats"
      [] attr = "cumulative_stats" -> "cumulative-stats"
      [] attr = "downloaded_bytes" -> "downloaded-bytes"
      [] attr = "uploaded_bytes" -> "uploaded-bytes"
      [] attr = "files_added" -> "files-added"
      [] attr = "seconds_active" -> "seconds-active"
      [] attr = "session_count" -> "session-count"

Spellings(attr) == <<attr, CamelSpelling(attr), HyphenSpelling(attr)>>

\* an object carrying key ks[i] with value vs[i] where vs[i] is defined
ObjectOf(ks, vs) ==
    [k \in {ks[i] : i \in {j \in 1 .. Len(ks) : vs[j].t # "undefined"}} |->
        vs[CHOOSE i \in 1 .. Len(ks) : ks[i] = k]]

\* the statistics blocks a response may carry, each carrying one attribute
\* in some of its spellings
BlockNames ==
    {<<a, u, c, h>> : a \in {"downloaded_bytes", "session_count"},
                      u \in {"-", "5"}, c \in {"-", "9"}, h \in {"-", "7"}}

BlockValue(d) ==
    CASE d = "5" -> JNum(5) [] d = "9" -> JNum(9) [] d = "7" -> JNum(7)
      [] OTHER -> JUndefined

\* the object a named block stands for
BlockFields(name) ==
    ObjectOf(Spellings(name[1]),
             <<BlockValue(name[2]), BlockValue(name[3]), BlockValue(name[4])>>)

BlockObject(name) ==
    [t |-> "object", s |-> name, n |-> 0, a |-> <<>>]

StatsBlockValues ==
    {JUndefined, JNull}
    \cup {BlockObject(name) : name \in
            { <<"downloaded_bytes", "5", "9", "-">>,
              <<"downloaded_bytes", "-", "9", "7">>,
              <<"session_count", "-", "-", "7">> }}

\* stats: any -- responses carrying one scalar attribute in some spellings,
\* or one block under some spellings, or one block under one key with any of
\* the contents above
StatsInputs ==
    {ObjectOf(Spellings(attr), vs) :
        attr \in StatsScalars, vs \in [1 .. 3 -> {JUndefined, JNull, JNum(5), JNum(9)}]}
    \cup {ObjectOf(Spellings(attr), vs) :
            attr \in StatsBlocks, vs \in [1 .. 3 -> StatsBlockValues]}
    \cup {ObjectOf(<<key>>, <<BlockObject(name)>>) :
            key \in {"current_stats", "cumulativeStats"}, name \in BlockNames}

\* stats.x_y ?? stats.xY ?? 0
ReadScalar(stats, attr) ==
    Nullish(Get(stats, attr),
            Nullish(Get(stats, CamelSpelling(attr)), JNum(0)))

ReadBlock_camelBeforeHyphen(stats, attr) ==
    Nullish(Get(stats, attr),
            Nullish(Get(stats, CamelSpelling(attr)),
                    Get(stats, HyphenSpelling(attr))))

\* stats.x_y ?? stats["x-y"] ?? stats.xY
ReadBlock(stats, attr) ==
    Nullish(Get(stats, attr),
            Nullish(Get(stats, HyphenSpelling(attr)),
                    Get(stats, CamelSpelling(attr))))

\* stats["x_y"] ?? stats["x-y"] of the JSON branch
ReadBlockJson(stats, attr) ==
    Nullish(Get(stats, attr), Get(stats, HyphenSpelling(attr)))

\* current.x_y ?? current.xY
ReadInner(block, attr) ==
    Nullish(Get(BlockFields(block.s), attr),
            Get(BlockFields(block.s), CamelSpelling(attr)))

\* the attributes a "## ... Totals" section prints
SectionAttrs(attr) ==
    IF attr = "current_stats" THEN BlockAttrs \ {"session_count"}
    ELSE BlockAttrs

\* the values a section prints; no section when the block is falsy
Section(stats, attr) ==
    LET block == ReadBlock(stats, attr)
    IN IF Truthy(block)
       THEN << [a \in SectionAttrs(attr) |-> ReadInner(block, a)] >>
       ELSE <<>>

\* the values formatStatsMarkdown(stats) renders
formatStatsMarkdown(stats) ==
    [ scalars |-> [a \in StatsScalars |-> ReadScalar(stats, a)],
      blocks |-> [a \in StatsBlocks |-> ReadBlock(stats, a)],
      sections |-> [a \in StatsBlocks |-> Section(stats, a)] ]

\* the object the JSON branch of transmission_get_stats serialises
StatsJson(stats) ==
    [ scalars |-> [a \in StatsScalars |-> ReadScalar(stats, a)],
      blocks |-> [a \in StatsBlocks |-> ReadBlockJson(stats, a)],
      sections |-> [a \in StatsBlocks |-> <<>>] ]

ResponseFormats == {"markdown", "json"}

StatsInit ==
    /\ ClientIdle
    /\ preferLegacy = FALSE
    /\ tool \in ResponseFormats
    /\ input \in StatsInputs
    /\ output = <<>>

\* the markdown branch of the transmission_get_stats handler
RenderMarkdown ==
    /\ tool = "markdown"
    /\ Len(output) = 0
    /\ output' = <<formatStatsMarkdown(input)>>
    /\ UNCHANGED <<clientVars, tool, input>>

\* the JSON branch of the transmission_get_stats handler
RenderJson ==
    /\ tool = "json"
    /\ Len(output) = 0
    /\ output' = <<StatsJson(input)>>
    /\ UNCHANGED <<clientVars, tool, input>>

StatsNext == RenderMarkdown \/ RenderJson

StatsSpec == StatsInit /\ [][StatsNext]_vars

(***************************************************************************)
(* The page of transmission_list_torrents in JSON format (index.ts).       *)
(***************************************************************************)
MaxTotal == 5

HasMore_inclusive(end, total) == end <= total

\* if (end < total)
HasMore(end, total) == end < total

\* the result object built from the daemon's torrents (a sequence), offset
\* and limit: allTorrents.slice(start, end) clamps both ends to the length
ListJson(allTorrents, offset, limit) ==
    LET total == Len(allTorrents)
        start == offset
        end == start + limit
        from == IF start > total THEN total ELSE start
        to == IF end > total THEN total ELSE end
        torrents == IF to > from THEN SubSeq(allTorrents, from + 1, to) ELSE <<>>
    IN [ total |-> total,
         count |-> Len(torrents),
         offset |-> offset,
         torrents |-> torrents,
         has_more |-> HasMore(end, total),
         next_offset |-> IF HasMore(end, total) THEN <<end>> ELSE <<>> ]

\* limit is an integer from 1 up, offset one from 0 up (LimitSchema,
\* OffsetSchema); the daemon holds torrents 1 .. T
ListInit ==
    /\ ClientIdle
    /\ preferLegacy = FALSE
    /\ tool = "list_json"
    /\ input \in [ torrents : {[i \in 1 .. n |-> i] : n \in 0 .. MaxTotal},
                   offset : 0 .. MaxTotal + 1,
                   limit : 1 .. MaxTotal + 1 ]
    /\ output = <<>>

\* the JSON branch of the transmission_list_torrents handler
Paginate ==
    /\ tool = "list_json"
    /\ Len(output) = 0
    /\ output' = <<ListJson(input.torrents, input.offset, input.limit)>>
    /\ UNCHANGED <<clientVars, tool, input>>

ListSpec == ListInit /\ [][Paginate]_vars

(***************************************************************************)
(* The claims.                                                             *)
(***************************************************************************)
\* requests the call in progress has sent so far
Requests(h) == h.nModern + h.rModern + h.nLegacy + h.rLegacy

\* resends of the request in flight
Resends(c) == IF path[c] = "modern" THEN hist[c].rModern ELSE hist[c].rLegacy

\* the legacy envelope of each input, written out
WireStop ==
    [shape |-> "legacy", method |-> <<"torrent", "-", "stop">>,
     payload |-> << [k |-> <<"ids">>, v |-> JArr(<<JNum(1), JNum(2)>>)] >>,
     hasId |-> FALSE]

WireCustom ==
    [shape |-> "legacy", method |-> <<"group", "-", "get">>,
     payload |-> << [k |-> <<"delete", "-", "local", "-", "data">>,
                     v |-> JBool(TRUE)] >>,
     hasId |-> FALSE]

ExpectedWire(m) == IF m = MethodStop THEN WireStop ELSE WireCustom

\* the redo of call c is in flight, and the first response to its
\* modern-shaped request was the signal
RedoAfterFirstResponse(c) ==
    /\ pc[c] = "fetch"
    /\ hist[c].sawSignal
    /\ hist[c].rModern = 0

\* C1 as stated: when the first response to the modern-shaped request
\* carries the signal, the dialect state is legacy-confirmed and the call is
\* redone through the legacy path, two requests in total, the second the
\* legacy envelope.
C1_TwoRequestsInTotal ==
    \A c \in Calls :
        RedoAfterFirstResponse(c) =>
            /\ preferLegacy
            /\ path[c] = "redo"
            /\ req[c].body = ExpectedWire(method[c])
            /\ Requests(hist[c]) = 2

\* C1 amended: as C1, with the count read as one modern-shaped and one
\* legacy-shaped request; every further request of the call is a resend of
\* that same legacy envelope after a 409 that carried a token.
C1_RedoThroughLegacy ==
    \A c \in Calls :
        RedoAfterFirstResponse(c) =>
            /\ preferLegacy
            /\ path[c] = "redo"
            /\ req[c].body = ExpectedWire(method[c])
            /\ hist[c].nModern = 1
            /\ hist[c].nLegacy = 1
            /\ Requests(hist[c]) = 2 + hist[c].rLegacy

C1_Witness ==
    \E c \in Calls :
        /\ RedoAfterFirstResponse(c)
        /\ method[c] = MethodStop
        /\ hist[c].rLegacy = 0
        /\ hist[c].nLegacy = 1

\* C2: once the dialect state is legacy-confirmed it stays legacy-confirmed
\* in every later state.
C2_NeverReverts == [][preferLegacy => preferLegacy']_vars

\* a call that began on the modern path is about to go on with a response
\* that is no signal, while the flag is already set
C2_Witness ==
    /\ preferLegacy
    /\ \E c \in Calls :
          /\ pc[c] = "resume"
          /\ ~hist[c].sawSignal
          /\ res[c] = BModernOk

\* C3: a call that starts while the dialect state is legacy-confirmed sends
\* legacy-shaped requests only, whatever the daemon answers.
C3_LegacyOnly ==
    \A c \in Calls :
        hist[c].startedLegacy =>
            /\ hist[c].nModern = 0
            /\ hist[c].rModern = 0
            /\ pc[c] = "fetch"
            /\ req[c].body.shape = "legacy"

C3_Witness ==
    \E c \in Calls :
        /\ hist[c].startedLegacy
        /\ hist[c].rLegacy = 1
        /\ method[c] = MethodCustom

\* C4 as stated: within one call a request answered with 409 is resent at
\* most once.
C4_ResentAtMostOnce ==
    \A c \in Calls : hist[c].rModern <= 1 /\ hist[c].rLegacy <= 1

\* C5 as stated: every call terminates, provided each request is answered.
C5_Terminates ==
    \A c \in Calls : (pc[c] = "fetch") ~> (pc[c] = "idle")

\* C6: a request answered with a 409 that carries a token is resent exactly
\* once for that response, the resend carries the token of that 409, and a
\* call that begins later sends the token of the latest 409 on its first
\* request.
C6_ResendCarriesToken ==
    \A c \in Calls :
        (pc[c] = "fetch" /\ hist[c].stale >= 1) =>
            /\ req[c].token = hist[c].issued
            /\ hist[c].stale = 1 => Resends(c) = 1

C6_NextCallSendsToken ==
    \A c \in Calls :
        (pc[c] = "idle" /\ pc'[c] = "fetch") => req'[c].token = lastIssued

C6_StaleSessionResend ==
    /\ []C6_ResendCarriesToken
    /\ [][C6_NextCallSendsToken]_vars

\* one call was resent once with the issued token and has settled with a
\* result; the other has begun since and carries that token
C6_Witness ==
    \E c, d \in Calls :
        /\ pc[c] = "idle"
        /\ outcome[c].kind = "return"
        /\ pc[d] = "fetch"
        /\ Requests(hist[d]) = 1
        /\ lastIssued # NoToken
        /\ req[d].token = lastIssued

\* a step in which call c sends a request
Sends(c) ==
    /\ pc'[c] = "fetch"
    /\ pc[c] # "fetch" \/ req'[c] # req[c] \/ hist'[c] # hist[c]

\* a step in which the promise of call c settles
Settles(c) == pc[c] # "idle" /\ pc'[c] = "idle"

\* C7: when the modern path yields the signal, the call goes on to the
\* legacy path, and the outcome the caller observes is the outcome of that
\* legacy request; the signal is not the outcome.
C7_Step ==
    \A c \in Calls :
        /\ (pc[c] = "resume" /\ hist[c].sawSignal /\ pc'[c] # "resume") =>
              /\ pc'[c] = "fetch"
              /\ path'[c] = "redo"
              /\ req'[c].body.shape = "legacy"
              /\ outcome'[c] = NoOutcome
        /\ (Settles(c) /\ hist[c].sawSignal) =>
              /\ path[c] = "redo"
              /\ req[c].body.shape = "legacy"
              /\ outcome'[c] = Settle("legacy", res'[c])

C7_SignalAbsorbed == [][C7_Step]_vars

C7_Witness ==
    \E c \in Calls :
        /\ pc[c] = "idle"
        /\ path[c] = "redo"
        /\ res[c] = BLegacyErr
        /\ outcome[c] = Throw(MsgDaemonError)

\* C8 as stated: against a daemon that answers the modern dialect a call
\* sends exactly one request, shaped {method, params, id}, returns the
\* unwrapped result, sends no legacy-shaped request and leaves the dialect
\* state at unknown-prefer-modern.
C8_ExactlyOneRequest ==
    kind = "modern" =>
        /\ ~preferLegacy
        /\ \A c \in Calls :
              /\ pc[c] = "fetch" =>
                    /\ req[c].body = [shape |-> "modern", method |-> method[c],
                                      payload |-> params[c], hasId |-> TRUE]
                    /\ Requests(hist[c]) = 1
              /\ (pc[c] = "idle" /\ res[c] = BModernOk) =>
                    outcome[c] = Return(JObj("payload"))

\* C8 amended: as C8, with one modern-shaped request that is sent again,
\* unchanged, once for each 409 response that carries a token: exactly one
\* request when the daemon answers it with a result.
C8_ModernDaemon ==
    kind = "modern" =>
        /\ ~preferLegacy
        /\ \A c \in Calls :
              /\ pc[c] = "fetch" =>
                    /\ req[c].body = [shape |-> "modern", method |-> method[c],
                                      payload |-> params[c], hasId |-> TRUE]
                    /\ hist[c].nModern = 1
                    /\ hist[c].nLegacy = 0
                    /\ hist[c].rLegacy = 0
                    /\ hist[c].rModern = hist[c].stale
              /\ (pc[c] = "idle" /\ res[c] = BModernOk) =>
                    outcome[c] = Return(JObj("payload"))

C8_Witness ==
    /\ kind = "modern"
    /\ sessionId = NoToken
    /\ \E c \in Calls :
          /\ pc[c] = "idle"
          /\ path[c] = "modern"
          /\ outcome[c] = Return(JObj("payload"))

\* C9 as stated: when calls overlap against a legacy daemon, each call sends
\* at most one modern-shaped request (none when it began after the flag was
\* set), every call ends by a legacy-shaped request, and the dialect state
\* is legacy-confirmed once a call has received the signal.
C9_OneModernRequest ==
    kind = "legacy" =>
        \A c \in Calls :
            /\ hist[c].nModern + hist[c].rModern <= 1
            /\ hist[c].startedLegacy => hist[c].nModern + hist[c].rModern = 0
            /\ (hist[c].sawSignal /\ pc[c] # "resume") => preferLegacy
            /\ (pc[c] = "idle" /\ path[c] # "none") =>
                  /\ path[c] \in {"legacy", "redo"}
                  /\ res[c] \in {BLegacyOk, BLegacyErr}

\* C9 amended: as C9, with "at most one modern-shaped request" read as at
\* most one request built by the modern path, which is sent again only for
\* a 409 response that carries a token.
C9_OverlappingCalls ==
    kind = "legacy" =>
        \A c \in Calls :
            /\ hist[c].nModern <= 1
            /\ hist[c].startedLegacy => hist[c].nModern + hist[c].rModern = 0
            /\ (path[c] = "modern" /\ pc[c] = "fetch") =>
                  hist[c].rModern = hist[c].stale
            /\ (hist[c].sawSignal /\ pc[c] # "resume") => preferLegacy
            /\ (pc[c] = "idle" /\ path[c] # "none") =>
                  /\ path[c] \in {"legacy", "redo"}
                  /\ res[c] \in {BLegacyOk, BLegacyErr}

\* one call has set the flag and settled through its redo while the other,
\* begun before, still has its probe in flight
C9_Witness ==
    /\ kind = "legacy"
    /\ preferLegacy
    /\ \E c, d \in Calls :
          /\ pc[c] = "idle" /\ path[c] = "redo"
          /\ pc[d] = "fetch" /\ path[d] = "modern"
          /\ ~hist[d].startedLegacy

\* C10: every request sent, on either path and on a resend, carries the
\* session token the client holds at that moment, and carries none only
\* while the client holds none; a token once held is never dropped.
C10_Step ==
    /\ \A c \in Calls : Sends(c) => req'[c].token = sessionId'
    /\ sessionId # NoToken => sessionId' # NoToken

C10_CarriesToken == [][C10_Step]_vars

C10_Witness ==
    \E c \in Calls :
        /\ pc[c] = "fetch"
        /\ path[c] = "redo"
        /\ hist[c].rLegacy = 1
        /\ sessionId = 2
        /\ req[c].token = 2

\* a call has settled on the legacy path with a parsed JSON object
SettledLegacy(c) ==
    /\ pc[c] = "idle"
    /\ path[c] \in {"legacy", "redo"}
    /\ res[c].kind = "object"

\* C11 as stated: on the legacy path the call succeeds only when the
\* top-level result field is the literal "success"; any other value of the
\* field fails the call with that value as the message; on success the call
\* returns the arguments sub-object, or the parsed body when there is none.
C11_SuccessOnlyOnLiteral ==
    \A c \in Calls :
        SettledLegacy(c) =>
            /\ outcome[c].kind = "return" => res[c].result = JStr(MsgSuccess)
            /\ (res[c].result.t = "string" /\ res[c].result # JStr(MsgSuccess)) =>
                  outcome[c] = Throw(res[c].result.s)
            /\ res[c].result = JStr(MsgSuccess) =>
                  outcome[c] = Return(IF res[c].arguments.t = "undefined"
                                      THEN JObj(res[c].name)
                                      ELSE res[c].arguments)

\* the error of each error envelope the daemon may send, written out
DaemonErrorOf(json) ==
    CASE json = BModernErr -> Throw(<<"invalid", "argument">>)
      [] json = BModernErrDetail ->
            Throw(<<"invalid", "argument", ":", "torrent", "not", "found">>)
      [] json = BErrNotRec -> Throw(<<"Method", "name", "Not", "RECOGNIZED">>)

\* C12: on the modern path a response body with an error envelope makes
\* callJsonRpc fail with the daemon's message, followed by ": " and
\* error.data.errorString when there is one; the result payload beside the
\* envelope is never returned, to call() or, when the message is not the
\* signal, to the caller.
C12_ErrorEnvelope ==
    \A c \in Calls :
        /\ (pc[c] = "resume" /\ res[c].error) =>
              Settle("modern", res[c]) = DaemonErrorOf(res[c])
        /\ (pc[c] = "idle" /\ path[c] = "modern" /\ res[c].error) =>
              /\ outcome[c] = DaemonErrorOf(res[c])
              /\ outcome[c].kind # "return"

\* an envelope with a detail string and a result beside it has failed a call
C12_Witness ==
    \E c \in Calls :
        /\ pc[c] = "idle"
        /\ path[c] = "modern"
        /\ res[c] = BModernErrDetail
        /\ res[c].result = JObj("payload")
        /\ outcome[c] =
              Throw(<<"invalid", "argument", ":", "torrent", "not", "found">>)

\* the responses that fail a call with a transport error or a daemon error
\* whose message lacks the phrase, on each path
FailingModern ==
    {BModernErr, BModernErrDetail, InvalidBody, RejectedBody(MsgFetchFailed)}

FailingLegacy == {BLegacyErr, InvalidBody, RejectedBody(MsgFetchFailed)}

Failing(p) == IF p = "modern" THEN FailingModern ELSE FailingLegacy

\* C13: a call that fails with a transport error or a daemon-reported error,
\* the message of either without the "not recognized" phrase, is not
\* retried: from the failing response on the call sends no request, it
\* settles with the error, and its steps leave the dialect state and the
\* session token as they were.
C13_Step ==
    \A c \in Calls :
        /\ (pc[c] = "fetch" /\ pc'[c] # "fetch" /\ res'[c] \in Failing(path[c])) =>
              /\ req'[c] = NoRequest
              /\ preferLegacy' = preferLegacy
              /\ sessionId' = sessionId
        /\ (pc[c] = "resume" /\ pc'[c] # "resume" /\ res[c] \in FailingModern) =>
              /\ pc'[c] = "idle"
              /\ outcome'[c].kind = "throw"
              /\ req'[c] = NoRequest
              /\ preferLegacy' = preferLegacy
              /\ sessionId' = sessionId
        /\ (pc[c] = "fetch" /\ pc'[c] = "idle" /\ res'[c] \in FailingLegacy) =>
              outcome'[c].kind = "throw"

C13_NotRetried == [][C13_Step]_vars

\* a transport error has failed a modern-path call of a client that holds a
\* session token
C13_Witness ==
    \E c \in Calls :
        /\ pc[c] = "idle"
        /\ path[c] = "modern"
        /\ res[c] = RejectedBody(MsgFetchFailed)
        /\ outcome[c] = Throw(MsgFetchFailed)
        /\ sessionId # NoToken
        /\ ~preferLegacy

\* C14 as stated: normalizeTorrentIds applied to any of its own outputs
\* returns that output.
C14_Idempotent ==
    (tool = "normalizeTorrentIds" /\ Len(output) = 2) => output[2] = output[1]

\* the digit-only strings of the domain and the integer each denotes
DigitOnly == {JStr(<<"7">>), JStr(<<"0", "7">>), JStr(<<"1", "2">>)}

IntegerOf(id) == IF id = JStr(<<"1", "2">>) THEN JNum(12) ELSE JNum(7)

HasDigitOnlyString(v) ==
    \/ v \in DigitOnly
    \/ \E i \in 1 .. Len(v.a) : v.a[i] \in DigitOnly

\* the normalizer has been applied to an input of the kind named
Normalized(t) ==
    /\ tool = "normalizeTorrentIds"
    /\ Len(output) >= 1
    /\ input.t = t

\* C15 as stated: a digit-only string s gives [Number(s)]; in an array each
\* digit-only string element becomes its integer and every other element
\* keeps its value, length and order preserved; the output holds no
\* digit-only string, at the top level or inside an array.
C15_OthersKeepValue ==
    /\ (Normalized("string") /\ input \in DigitOnly) =>
          output[1] = JArr(<<IntegerOf(input)>>)
    /\ Normalized("array") =>
          /\ output[1].t = "array"
          /\ Len(output[1].a) = Len(input.a)
          /\ \A i \in 1 .. Len(input.a) :
                output[1].a[i] = IF input.a[i] \in DigitOnly
                                 THEN IntegerOf(input.a[i])
                                 ELSE input.a[i]
    /\ (tool = "normalizeTorrentIds" /\ Len(output) >= 1) =>
          ~HasDigitOnlyString(output[1])

\* C15 amended: as C15, except that an array element spelled
\* "recently_active" does not keep its value: it becomes "recently-active".
C15_DigitStringsBecomeIntegers ==
    /\ (Normalized("string") /\ input \in DigitOnly) =>
          output[1] = JArr(<<IntegerOf(input)>>)
    /\ Normalized("array") =>
          /\ output[1].t = "array"
          /\ Len(output[1].a) = Len(input.a)
          /\ \A i \in 1 .. Len(input.a) :
                output[1].a[i] =
                    IF input.a[i] \in DigitOnly
                    THEN IntegerOf(input.a[i])
                    ELSE IF input.a[i] = JStr(<<"recently", "_", "active">>)
                         THEN JStr(<<"recently", "-", "active">>)
                         ELSE input.a[i]
    /\ (tool = "normalizeTorrentIds" /\ Len(output) >= 1) =>
          ~HasDigitOnlyString(output[1])

C15_Witness ==
    /\ Normalized("array")
    /\ input = JArr(<<JStr(<<"1", "2">>), JStr(<<"1", "abc">>)>>)
    /\ output[1] = JArr(<<JNum(12), JStr(<<"1", "abc">>)>>)

\* C16: normalizeTorrentIds("all") is undefined, and "recently_active" and
\* "recently-active" both normalize to "recently-active", at the top level
\* and as array elements.
C16_Sentinels ==
    /\ (Normalized("string") /\ input = JStr(<<"all">>)) =>
          output[1] = JUndefined
    /\ (Normalized("string")
        /\ input \in {JStr(<<"recently", "_", "active">>),
                      JStr(<<"recently", "-", "active">>)}) =>
          output[1] = JStr(<<"recently", "-", "active">>)
    /\ Normalized("array") =>
          \A i \in 1 .. Len(input.a) :
              input.a[i] \in {JStr(<<"recently", "_", "active">>),
                              JStr(<<"recently", "-", "active">>)} =>
                  output[1].a[i] = JStr(<<"recently", "-", "active">>)

C16_Witness ==
    /\ Normalized("array")
    /\ input = JArr(<<JStr(<<"recently", "_", "active">>),
                      JStr(<<"recently", "-", "active">>)>>)
    /\ output[1] = JArr(<<JStr(<<"recently", "-", "active">>),
                          JStr(<<"recently", "-", "active">>)>>)

\* the request of the handler's call as it goes out
Wire == JSONStringify(req["first"].body)

HasKey(obj, key) == \E i \in 1 .. Len(obj) : obj[i].k = key

\* C17: for every torrent-scoped tool invoked with the selector "all", the
\* request that reaches the daemon carries no ids field, in the modern
\* dialect and in the legacy dialect alike.
C17_AllOmitsIds ==
    (tool \in TorrentTools /\ input = JStr(<<"all">>) /\ pc["first"] = "fetch") =>
        /\ Wire.shape = IF preferLegacy THEN "legacy" ELSE "modern"
        /\ ~HasKey(Wire.payload, <<"ids">>)

\* the move tool, on a legacy-confirmed client
C17_Witness ==
    /\ tool = "transmission_move_torrent"
    /\ input = JStr(<<"all">>)
    /\ pc["first"] = "fetch"
    /\ Wire.shape = "legacy"
    /\ Wire.method = <<"torrent", "-", "set", "-", "location">>
    /\ Wire.payload = << [k |-> <<"move">>, v |-> JBool(TRUE)],
                         [k |-> <<"location">>, v |-> JStr(<<"/", "data">>)] >>

\* toLegacyParams has been applied to a mapping with / without a fields key
Translated(withFields) ==
    /\ tool = "toLegacyParams"
    /\ Len(output) >= 1
    /\ HasKey(input, <<"fields">>) = withFields

\* each key of the domain with its underscores rewritten to hyphens
HyphenKey(key) ==
    CASE key = <<"delete", "_", "local", "_", "data">> ->
            <<"delete", "-", "local", "-", "data">>
      [] key = <<"download", "_", "dir">> -> <<"download", "-", "dir">>
      [] key = <<"peer", "_", "_", "limit">> -> <<"peer", "-", "-", "limit">>
      [] key = <<"ids">> -> <<"ids">>
      [] key = <<"seed", "Ratio", "Limit">> -> <<"seed", "Ratio", "Limit">>

\* the entries of obj whose value is not absent, in order
RECURSIVE Present(_)
Present(obj) ==
    IF Len(obj) = 0 THEN <<>>
    ELSE IF obj[1].v = JUndefined THEN Present(Tail(obj))
    ELSE <<obj[1]>> \o Present(Tail(obj))

\* C18: for a canonical parameter mapping without a fields key, legacy
\* translation drops the keys whose value is absent, rewrites underscores to
\* hyphens in every key that has one, keeps every other key as it is, and
\* leaves every value (and the order of the keys) unchanged.
C18_KeysRewritten ==
    Translated(FALSE) =>
        LET kept == Present(input)
        IN /\ Len(output[1]) = Len(kept)
           /\ \A i \in 1 .. Len(kept) :
                 /\ output[1][i].k = HyphenKey(kept[i].k)
                 /\ output[1][i].v = kept[i].v

C18_Witness ==
    /\ Translated(FALSE)
    /\ input = << [k |-> <<"delete", "_", "local", "_", "data">>, v |-> JUndefined],
                  [k |-> <<"download", "_", "dir">>, v |-> JStr(<<"a", "_", "b">>)] >>
    /\ output[1] = << [k |-> <<"download", "-", "dir">>,
                       v |-> JStr(<<"a", "_", "b">>)] >>

\* the camelCase equivalent of each field name of the domain
CamelOf(name) ==
    CASE name = <<"percent", "_", "done">> -> <<"percent", "Done">>
      [] name = <<"done", "_", "_", "name">> -> <<"done", "_", "Name">>
      [] name = <<"_", "id">> -> <<"Id">>
      [] OTHER -> name

\* the strings of a list of string values
Names(arr) == [i \in 1 .. Len(arr) |-> arr[i].s]

Count(list, x) == Cardinality({i \in 1 .. Len(list) : list[i] = x})

\* index of the first occurrence of x in list
Pos(list, x) == CHOOSE i \in 1 .. Len(list) :
                    list[i] = x /\ \A j \in 1 .. (i - 1) : list[j] # x

\* C19: for a fields list, legacy translation emits the union of the
\* requested names and their camelCase equivalents, each exactly once, in
\* the order of first occurrence (the requested names first, in their
\* relative order, then the equivalents not yet present).
C19_FieldsUnion ==
    Translated(TRUE) =>
        LET requested == Names(input[1].v.a)
            both == requested \o [i \in 1 .. Len(requested) |-> CamelOf(requested[i])]
            emitted == Names(output[1][1].v.a)
        IN /\ Len(output[1]) = 1
           /\ output[1][1].k = <<"fields">>
           /\ \A i \in 1 .. Len(both) : Count(emitted, both[i]) = 1
           /\ \A j \in 1 .. Len(emitted) : Count(both, emitted[j]) >= 1
           /\ \A i, j \in 1 .. Len(emitted) :
                 i < j <=> Pos(both, emitted[i]) < Pos(both, emitted[j])
           /\ \A i, j \in 1 .. Len(requested) :
                 Pos(requested, requested[i]) < Pos(requested, requested[j]) =>
                     Pos(emitted, requested[i]) < Pos(emitted, requested[j])

C19_Witness ==
    /\ Translated(TRUE)
    /\ Names(input[1].v.a) = << <<"percent", "Done">>, <<"percent", "_", "done">> >>
    /\ Names(output[1][1].v.a) =
          << <<"percent", "Done">>, <<"percent", "_", "done">> >>

\* C20: translating an already-translated fields list again yields the same
\* list, with no element and no duplicate added.
C20_FieldsIdempotent ==
    (Translated(TRUE) /\ Len(output) = 2) => output[2] = output[1]

C20_Witness ==
    /\ Translated(TRUE)
    /\ Len(output) = 2
    /\ Names(input[1].v.a) = << <<"done", "_", "_", "name">>, <<"_", "id">> >>
    /\ Names(output[2][1].v.a) =
          << <<"done", "_", "_", "name">>, <<"_", "id">>,
             <<"done", "_", "Name">>, <<"Id">> >>

\* name with each "_" replaced by "-"
RECURSIVE Hyphenated(_)
Hyphenated(name) ==
    IF Len(name) = 0 THEN <<>>
    ELSE <<IF name[1] = "_" THEN "-" ELSE name[1]>> \o Hyphenated(Tail(name))

\* C21 as stated: for every method name, in the table or not, the legacy
\* name is the canonical name with each underscore replaced by a hyphen.
C21_AlwaysHyphenated ==
    (tool = "toLegacyMethod" /\ Len(output) = 1) =>
        output[1] = Hyphenated(input)

\* the same for the names an object literal does not inherit
C21_OwnNamesHyphenated ==
    (tool = "toLegacyMethod" /\ Len(output) = 1
     /\ input \notin ObjectPrototypeNames) =>
        output[1] = Hyphenated(input)

\* the first value of vs that is neither undefined nor null, else undefined
RECURSIVE FirstPresent(_)
FirstPresent(vs) ==
    IF Len(vs) = 0 THEN JUndefined
    ELSE IF vs[1].t \in {"undefined", "null"} THEN FirstPresent(Tail(vs))
    ELSE vs[1]

Rendered == Len(output) = 1 /\ tool \in ResponseFormats

Underscore(o, attr) == Get(o, attr)
Camel(o, attr) == Get(o, CamelSpelling(attr))
Hyphen(o, attr) == Get(o, HyphenSpelling(attr))

\* C22 as stated: every attribute read, the statistics blocks included, gets
\* the first present value in the order underscore, camelCase, hyphenated.
C22_UnderscoreCamelHyphen ==
    Rendered =>
        /\ \A a \in StatsScalars :
              \E v \in {FirstPresent(<<Underscore(input, a), Camel(input, a),
                                        Hyphen(input, a)>>)} :
                 output[1].scalars[a] = IF v.t = "undefined" THEN JNum(0) ELSE v
        /\ \A a \in StatsBlocks :
              FirstPresent(<<output[1].blocks[a]>>) =
                  FirstPresent(<<Underscore(input, a), Camel(input, a),
                                 Hyphen(input, a)>>)

\* C22, amended: the underscore form always comes first; a scalar attribute
\* and an attribute inside a block then fall back to the camelCase form only
\* (a scalar to 0 after that); a statistics block falls back to the
\* hyphenated form and, in markdown only, to the camelCase form after it.
C22_CodeOrder ==
    Rendered =>
        /\ \A a \in StatsScalars :
              \E v \in {FirstPresent(<<Underscore(input, a),
                                        Camel(input, a)>>)} :
                 output[1].scalars[a] = IF v.t = "undefined" THEN JNum(0) ELSE v
        /\ \A a \in StatsBlocks :
              FirstPresent(<<output[1].blocks[a]>>) =
                  FirstPresent(<<Underscore(input, a), Hyphen(input, a)>>
                               \o (IF tool = "markdown"
                                   THEN <<Camel(input, a)>> ELSE <<>>))
        /\ \A a \in StatsBlocks :
              \A i \in 1 .. Len(output[1].sections[a]) :
                 \A b \in DOMAIN output[1].sections[a][i] :
                    \E o \in {BlockFields(output[1].blocks[a].s)} :
                       output[1].sections[a][i][b] =
                           FirstPresent(<<Underscore(o, b), Camel(o, b)>>)

\* a response with different blocks under the camelCase and the hyphenated
\* key and none under the underscore key has been rendered as markdown, from
\* the block under the hyphenated key
C22_Witness ==
    /\ Rendered
    /\ tool = "markdown"
    /\ Underscore(input, "current_stats").t = "undefined"
    /\ Camel(input, "current_stats").t = "object"
    /\ Hyphen(input, "current_stats").t = "object"
    /\ Camel(input, "current_stats") # Hyphen(input, "current_stats")
    /\ output[1].blocks["current_stats"] = Hyphen(input, "current_stats")
    /\ Len(output[1].sections["current_stats"]) = 1

HandlerSettled == pc["first"] = "idle" /\ outcome["first"] # NoOutcome

\* C23: once the client call of a handler has settled, the handler can
\* return, and what it returns after an error of the client is an error
\* response: isError set and a text that names the error.
C23_ErrorResponse ==
    /\ (tool \in TorrentTools \cup SessionTools /\ HandlerSettled
        /\ Len(output) = 0) => ENABLED Respond
    /\ (tool \in TorrentTools \cup SessionTools /\ Len(output) = 1) =>
          /\ HandlerSettled
          /\ outcome["first"].kind = "throw" =>
                /\ output[1].isError
                /\ Len(output[1].text) > 1
                /\ output[1].text[1] = "Error:"

\* a handler has answered a call that failed with the daemon's own message
C23_Witness ==
    /\ tool = "transmission_pause_torrent"
    /\ Len(output) = 1
    /\ outcome["first"] = Throw(MsgDaemonError)
    /\ output[1] = [isError |-> TRUE, text |-> <<"Error:">> \o MsgDaemonError]

AddTorrentCalled ==
    /\ tool = "transmission_add_torrent"
    /\ pc["first"] = "fetch"
    /\ method["first"] = <<"torrent", "_", "add">>

\* the values the request carries under a spelling of the download directory
DownloadDirValues ==
    {Wire.payload[i].v :
        i \in {j \in 1 .. Len(Wire.payload) :
                 Wire.payload[j].k \in {<<"download", "_", "dir">>,
                                        <<"download", "-", "dir">>,
                                        <<"download", "Dir">>}}}

\* C24 as stated: with download_dir supplied, the request of
\* transmission_add_torrent carries the supplied directory and no other, in
\* either dialect; the default directory is sent only when none is supplied.
C24_OnlySuppliedDir ==
    AddTorrentCalled =>
        DownloadDirValues =
            IF input.args.download_dir.t = "undefined"
            THEN {JStr(<<"/", "downloads">>)}
            ELSE {input.args.download_dir}

\* the same on the legacy path only, for a directory that is not empty
C24_LegacyOnlySuppliedDir ==
    (AddTorrentCalled /\ path["first"] = "legacy") =>
        DownloadDirValues =
            IF Truthy(input.args.download_dir)
            THEN {input.args.download_dir}
            ELSE {JStr(<<"/", "downloads">>)}

\* what the identifier normalizer makes of each selector the handlers are
\* run with
ExpectedIds(selector) ==
    CASE selector = JStr(SelectorAll) -> JUndefined
      [] selector = JStr(RecentlyActiveUnderscore) -> JStr(RecentlyActive)
      [] selector = JNum(1) -> JArr(<<JNum(1)>>)
      [] selector = JStr(<<"1", "2">>) -> JArr(<<JNum(12)>>)
      [] selector = JArr(<<JStr(<<"7">>), JStr(<<"abc">>)>>) ->
            JArr(<<JNum(7), JStr(<<"abc">>)>>)

QueueMethod(d) ==
    CASE d = "top" -> <<"queue", "_", "move", "_", "top">>
      [] d = "up" -> <<"queue", "_", "move", "_", "up">>
      [] d = "down" -> <<"queue", "_", "move", "_", "down">>
      [] d = "bottom" -> <<"queue", "_", "move", "_", "bottom">>

CallStarts == pc["first"] = "idle" /\ pc'["first"] # "idle"

\* C25: transmission_queue_move starts a client call only while it has made
\* none, the call's method is queue_move_d for the direction d given and its
\* only parameter is ids, the normalized selector; the handler answers only
\* after that call has settled and starts no call afterwards.
C25_OneCallPerDirection ==
    [][tool = "transmission_queue_move" =>
          /\ CallStarts =>
                /\ outcome["first"] = NoOutcome
                /\ Len(output) = 0
                /\ method'["first"] = QueueMethod(input.args.direction)
                /\ params'["first"] =
                       << [k |-> IdsKey, v |-> ExpectedIds(input.ids)] >>
          /\ Len(output') = 1 => (HandlerSettled /\ ~CallStarts)]_vars

\* the call of a move to the bottom of the queue, for a digit-only selector,
\* is in flight
C25_Witness ==
    /\ tool = "transmission_queue_move"
    /\ input.args.direction = "bottom"
    /\ input.ids = JStr(<<"1", "2">>)
    /\ pc["first"] = "fetch"
    /\ method["first"] = <<"queue", "_", "move", "_", "bottom">>
    /\ params["first"] = << [k |-> IdsKey, v |-> JArr(<<JNum(12)>>)] >>

\* C26: the client starts with the flag unset, and the only step that sets
\* it is the continuation of a call on the modern path whose awaited
\* response (or thrown error) carried the "not recognized" phrase; that call
\* then goes on to the legacy path.
C26_Step ==
    (preferLegacy' /\ ~preferLegacy) =>
        \E c \in Calls :
            /\ pc[c] = "resume"
            /\ path[c] = "modern"
            /\ hist[c].sawSignal
            /\ CarriesSignal(res[c])
            /\ pc'[c] = "fetch"
            /\ path'[c] = "redo"

C26_SetOnlyBySignal == ~preferLegacy /\ [][C26_Step]_vars

\* the flag is set, and the call that set it is redoing its request
C26_Witness ==
    /\ preferLegacy
    /\ \E c \in Calls :
          /\ path[c] = "redo"
          /\ pc[c] = "fetch"
          /\ ~hist[c].startedLegacy

\* the response of a daemon that answers 409 and issues token t
Conflict(t) == [status |-> StatusConflict, tok |-> t, body |-> InvalidBody]

\* C27: the stored token is absent at construction; it changes only in the
\* step that receives a 409 response with a token, which stores exactly that
\* token; a stored token never becomes absent.
C27_Step ==
    /\ sessionId' # sessionId =>
          \E c \in Calls, t \in Tokens :
              /\ FetchResolves(c, Conflict(t))
              /\ sessionId' = t
    /\ \A c \in Calls, t \in Tokens :
          FetchResolves(c, Conflict(t)) => sessionId' = t
    /\ sessionId # NoToken => sessionId' # NoToken

C27_TokenWrites == sessionId = NoToken /\ [][C27_Step]_vars

\* the stored token has been replaced by a second one
C27_Witness ==
    /\ sessionId = 2
    /\ \E c \in Calls :
          /\ pc[c] = "fetch"
          /\ hist[c].stale = 2
          /\ hist[c].issued = 2

\* C28: whatever the other call does, the step that receives a 409 with
\* token t resends at once, with t in the header and the body of the request
\* that was answered, and touches no other call's request.
C28_Step ==
    \A c \in Calls, t \in Tokens :
        FetchResolves(c, Conflict(t)) =>
            /\ pc'[c] = "fetch"
            /\ req'[c].token = t
            /\ req'[c].body = req[c].body
            /\ \A d \in Calls \ {c} : req'[d] = req[d]

C28_ResendAtomic == [][C28_Step]_vars

\* two calls overlap, each resent after its own 409: the first carries the
\* token of its 409 although the other call has replaced the stored token
\* since
C28_Witness ==
    /\ pc["first"] = "fetch"
    /\ pc["second"] = "fetch"
    /\ hist["first"].issued = 1
    /\ req["first"].token = 1
    /\ hist["second"].issued = 2
    /\ req["second"].token = 2
    /\ sessionId = 2

\* the response of a daemon that answers 409 without a token
BareConflict(b) == [status |-> StatusConflict, tok |-> NoToken, body |-> b]

\* C29: the step that receives a 409 without a token leaves the stored token
\* alone, sends nothing, and is the very step that receives status 200 with
\* the same body.
C29_Step ==
    \A c \in Calls, b \in {BLegacyOk, InvalidBody} :
        FetchResolves(c, BareConflict(b)) =>
            /\ sessionId' = sessionId
            /\ lastIssued' = lastIssued
            /\ pc'[c] # "fetch"
            /\ req'[c] = NoRequest
            /\ IF path[c] = "modern"
               THEN res'[c] = b /\ pc'[c] = "resume"
               ELSE outcome'[c] = Settle("legacy", b) /\ pc'[c] = "idle"

C29_BareConflict == [][C29_Step]_vars

\* a call on the modern path, with a token stored, has received a 409
\* without a token and waits to interpret its body
C29_Witness ==
    \E c \in Calls :
        /\ pc[c] = "resume"
        /\ hist[c].bare
        /\ sessionId # NoToken
        /\ res[c] = InvalidBody
        /\ req[c] = NoRequest

Min(a, b) == IF a < b THEN a ELSE b

Max(a, b) == IF a > b THEN a ELSE b

====
